---------------------------- MODULE Spec2Model ----------------------------
(***************************************************************************)
(* Model of qadence_trial.py: the DomainSampling residual sampler, the     *)
(* calc_derivative helper and the fixed-budget training loop.              *)
(*                                                                         *)
(* Reals are exact rationals [num, den] in lowest terms.  The network is   *)
(* a polynomial u(x,y) given by its integer coefficients (the trainable    *)
(* parameters); automatic differentiation is symbolic differentiation of   *)
(* that polynomial, with the graph-tracking rules of torch.autograd.       *)
(* The process-wide generator is a counter-based stream [seed, offset].    *)
(***************************************************************************)
EXTENDS Integers, Sequences, FiniteSets, TLC

VARIABLES
    pc,           \* position of the script / of the harness
    gen,          \* torch's process-wide generator
    params,       \* the model's trainable parameters (polynomial coefficients)
    shape,        \* shape of the model's output: "column" (n x 1) or "flat" (n)
    n_colpoints,  \* DomainSampling.n_colpoints
    n_inputs,     \* DomainSampling.n_inputs
    epoch,        \* loop variable of the training loop (iterations completed)
    grads,        \* the parameters' accumulated .grad: one entry per backward()
    terms,        \* sampler results of the running iteration, in call order
    loss,         \* the scalar loss of the running iteration
    drawn,        \* the batch as rand() returned it in the latest sampler call
    sample,       \* the batch as the model was evaluated on it in that call
    lastOp,       \* the latest sampler / helper operation
    result,       \* what that operation returned
    deriv,        \* the latest calc_derivative call: the flag at entry and exit, the outcome
    draws,        \* number of rand() calls so far
    seedings,     \* number of manual_seed() calls so far
    seed0,        \* the seed given to the latest manual_seed()
    steps,        \* number of optimizer steps so far
    consumed,     \* the .grad the latest optimizer step consumed
    trace,        \* the operations of the running iteration, in order
    writer,       \* the positions at which a parameter value has changed
    gen2,         \* second run (repeatability harness): its generator
    sample2,      \* second run: the batch of its latest sampler call
    sinceSeed     \* repeatability harness: sampler calls since the common seeding

vars == <<pc, gen, params, shape, n_colpoints, n_inputs, epoch, grads, terms,
          loss, drawn, sample, lastOp, result, deriv, draws, seedings, seed0,
          steps, consumed, trace, writer, gen2, sample2, sinceSeed>>

---------------------------------------------------------------------------
(* Bounds of the model *)

MaxSeed == 2
MaxColpoints == 2
MaxInputs == 3
MaxCalls == 2
MaxDeg == 3
N_EPOCHS == 2

(* manual_seed(42) *)
SEED == 42

---------------------------------------------------------------------------
(* Exact rational arithmetic.  The numeric helpers are functions, which
   are applied to values: an operator's argument is evaluated again at
   each of its uses when TLC evaluates ENABLED *)

Rat == [num : Int, den : Nat \ {0}]

GCD[a \in Nat, b \in Nat] == IF b = 0 THEN a ELSE GCD[b, a % b]

Norm[n \in Int, d \in Nat \ {0}] ==
    [num |-> n \div GCD[IF n < 0 THEN -n ELSE n, d],
     den |-> d \div GCD[IF n < 0 THEN -n ELSE n, d]]

RInt(k) == [num |-> k, den |-> 1]
RAdd[a \in Rat, b \in Rat] == Norm[a.num * b.den + b.num * a.den, a.den * b.den]
RSub[a \in Rat, b \in Rat] == Norm[a.num * b.den - b.num * a.den, a.den * b.den]
RMul[a \in Rat, b \in Rat] == Norm[a.num * b.num, a.den * b.den]
RDivInt[a \in Rat, k \in Nat \ {0}] == Norm[a.num, a.den * k]
RLess(a, b) == a.num * b.den < b.num * a.den

RPow[a \in Rat, k \in Nat] == IF k = 0 THEN RInt(1) ELSE RMul[a, RPow[a, k - 1]]

RSum[s \in Seq(Rat)] == IF s = <<>> THEN RInt(0) ELSE RAdd[Head(s), RSum[Tail(s)]]

(* tensor.pow(2) and tensor.mean() over the elements of a tensor *)
Pow2[s \in Seq(Rat)] == [i \in DOMAIN s |-> RMul[s[i], s[i]]]
Mean_as_sum(s) == RSum[s]
Mean(s) == RDivInt[RSum[s], Len(s)]

---------------------------------------------------------------------------
(* Polynomials u(x,y) = sum of c[i,j] x^i y^j, and their derivatives *)

Exps == (0..MaxDeg) \X (0..MaxDeg)
ExpSeq == [k \in 1..((MaxDeg + 1) * (MaxDeg + 1)) |->
              <<(k - 1) \div (MaxDeg + 1), (k - 1) % (MaxDeg + 1)>>]
Polys == [Exps -> Int]

Poly(t) == [e \in Exps |-> IF e \in DOMAIN t THEN t[e] ELSE 0]
ZeroPoly == [e \in Exps |-> 0]
PAdd[p \in Polys, q \in Polys] == [e \in Exps |-> p[e] + q[e]]

PSum[s \in Seq(Polys)] == IF s = <<>> THEN ZeroPoly ELSE PAdd[Head(s), PSum[Tail(s)]]

DX[p \in Polys] ==
    [e \in Exps |-> IF e[1] < MaxDeg THEN (e[1] + 1) * p[<<e[1] + 1, e[2]>>] ELSE 0]
DY[p \in Polys] ==
    [e \in Exps |-> IF e[2] < MaxDeg THEN (e[2] + 1) * p[<<e[1], e[2] + 1>>] ELSE 0]
(* the partial derivative w.r.t. input column k (columns past the second
   are features the model does not read) *)
D[p \in Polys, k \in Nat] == IF k = 1 THEN DX[p] ELSE IF k = 2 THEN DY[p] ELSE ZeroPoly

IsConst[p \in Polys] == \A e \in Exps : e # <<0, 0>> => p[e] = 0

Eval[p \in Polys, row \in Seq(Rat)] ==
    RSum[[k \in DOMAIN ExpSeq |->
            IF p[ExpSeq[k]] = 0 THEN RInt(0)
            ELSE RMul[RInt(p[ExpSeq[k]]),
                      RMul[RPow[row[1], ExpSeq[k][1]], RPow[row[2], ExpSeq[k][2]]]]]]

(* the pure Laplacian u_xx + u_yy *)
Laplacian(p) == PAdd[DX[DX[p]], DY[DY[p]]]

---------------------------------------------------------------------------
(* The process-wide generator and rand() *)

(* the values a uniform draw on [0,1) takes in the model: 0, 1/6, 1/2, 5/6
   (the points of the grid at which sin(pi x) is rational) *)
Grid == <<Norm[0, 1], Norm[1, 6], Norm[1, 2], Norm[5, 6]>>

Seeds == (0..MaxSeed) \cup {SEED}
FreshGenerator == [seed |-> 0, offset |-> 0]

(* the k-th value of the stream of a seed *)
Mix(s, k) == ((s + 1) * (k + 1) + (k * k) \div 3 + (s * k) \div 2) % Len(Grid)
Uniform(g, k) == Grid[Mix(g.seed, g.offset + k) + 1]

(* generator.manual_seed(s): restart the stream of seed s *)
manual_seed_keeps_position(g, s) == [seed |-> s, offset |-> g.offset]
manual_seed(g, s) == [seed |-> s, offset |-> 0]

(* rand(size=(n, m)): n*m successive values of the stream, row by row *)
rand_without_advance(g, n, m) ==
    [batch |-> [i \in 1..n |-> [k \in 1..m |-> Uniform(g, (i - 1) * m + (k - 1))]],
     gen   |-> g]
rand(g, n, m) ==
    [batch |-> [i \in 1..n |-> [k \in 1..m |-> Uniform(g, (i - 1) * m + (k - 1))]],
     gen   |-> [g EXCEPT !.offset = @ + n * m]]

(* the generator after d further draws: the closed form of d single draws *)
Skip(g, d) == [g EXCEPT !.offset = @ + d]

(* sin(pi * x) on the grid *)
SinPi[x \in Rat] ==
    CASE x = Norm[0, 1] -> Norm[0, 1]
      [] x = Norm[1, 6] -> Norm[1, 2]
      [] x = Norm[1, 2] -> Norm[1, 1]
      [] x = Norm[5, 6] -> Norm[1, 2]
      [] x = Norm[1, 1] -> Norm[0, 1]

---------------------------------------------------------------------------
(* Tensors, the model's forward pass and torch.autograd.grad *)

(* the shape of the model's output: (n, 1) or (n) *)
Shapes == {"column", "flat"}

Rows == Seq(Seq(Rat))
Gens == [seed : Nat, offset : Nat]
Draws == [batch : Rows, gen : Gens]

(* a leaf tensor: its rows and its requires_grad flag *)
Tensors == [rows : Rows, requires_grad : BOOLEAN]
Tensor(rows, flag) == [rows |-> rows, requires_grad |-> flag]

(* sample[:, col] = v   (col counts from 1 here, from 0 in the source) *)
SetColumn[rows \in Rows, col \in Nat, v \in Rat] ==
    [i \in DOMAIN rows |-> [rows[i] EXCEPT ![col] = v]]

(* a tensor computed from an input tensor: element (i, j) is cols[j] at row i
   of the input; tracked says whether autograd recorded a graph from the
   input to it (the input required grad when it was computed, and it
   depends on the input) *)
Computeds == [cols : Seq(Polys), tracked : BOOLEAN]

(* self.net(sample) *)
Forward[p \in Polys, s \in Tensors] ==
    [cols |-> <<p>>, tracked |-> s.requires_grad /\ ~IsConst[p]]

(* the values of column j of a computed tensor, one per row of the input *)
Column[t \in Computeds, j \in Nat, rows \in Rows] ==
    [i \in DOMAIN rows |-> Eval[t.cols[j], rows[i]]]

(* the derivative of a computed tensor: with create_graph=True it is part of
   the graph when it depends on the input *)
Derivative[cols \in Seq(Polys)] ==
    [cols |-> cols, tracked |-> \E k \in DOMAIN cols : ~IsConst[cols[k]]]

(* grad(inputs, outputs, grad_outputs=ones_like(outputs), create_graph=True,
   retain_graph=True)[0]: element (i, k) is the derivative of the sum of
   all elements of outputs with respect to inputs[i, k] *)
grad[outputs \in Computeds, m \in Nat] ==
    Derivative[[k \in 1..m |-> D[PSum[outputs.cols], k]]]

(* what calc_derivative leaves: the derivative or the error grad() raised,
   and the input tensor with its flag *)
Outcomes == [kind : {"ok", "error"}, inputs : Tensors, out : Computeds]

(* calc_derivative(outputs, inputs): the flag fix-up, then grad(), which
   raises when autograd has no graph from inputs to outputs *)
calc_derivative[outputs \in Computeds, inputs \in Tensors, m \in Nat] ==
    IF outputs.tracked
    THEN [kind |-> "ok", inputs |-> [inputs EXCEPT !.requires_grad = TRUE],
          out |-> grad[outputs, m]]
    ELSE [kind |-> "error", inputs |-> [inputs EXCEPT !.requires_grad = TRUE],
          out |-> outputs]

---------------------------------------------------------------------------
(* DomainSampling: each operation returns its value, the generator after
   it, the batch as drawn and the batch the model was evaluated on *)

Ok(v) == [kind |-> "ok", val |-> v]
Error == [kind |-> "error", val |-> RInt(0)]

(* the body shared by left_boundary, right_boundary and top_boundary on a
   drawn batch d: sample[:, col] = v; self.net(sample).pow(2).mean() *)
Boundary[p \in Polys, d \in Draws, col \in Nat, v \in Rat] ==
    [value  |-> Ok(Mean(Pow2[Column[Forward[p, Tensor(SetColumn[d.batch, col, v], FALSE)],
                                    1, SetColumn[d.batch, col, v]]])),
     gen    |-> d.gen,
     drawn  |-> d.batch,
     sample |-> SetColumn[d.batch, col, v]]

left_boundary_pins_y(p, sh, n, m, g) == Boundary[p, rand(g, n, m), 2, RInt(0)]
left_boundary(p, sh, n, m, g) == Boundary[p, rand(g, n, m), 1, RInt(0)]

right_boundary(p, sh, n, m, g) == Boundary[p, rand(g, n, m), 1, RInt(1)]

top_boundary(p, sh, n, m, g) == Boundary[p, rand(g, n, m), 2, RInt(1)]

(* self.net(sample) - sin(np.pi * sample[:, 0]): the target has shape (n);
   against a model output of shape (n) the difference is elementwise,
   against one of shape (n, 1) it broadcasts to the n x n matrix of
   out[i] - target[j] *)
Difference[out \in Seq(Rat), target \in Seq(Rat), sh \in Shapes] ==
    IF sh = "flat"
    THEN [i \in DOMAIN out |-> RSub[out[i], target[i]]]
    ELSE [k \in 1..(Len(out) * Len(target)) |->
             RSub[out[((k - 1) \div Len(target)) + 1], target[((k - 1) % Len(target)) + 1]]]

(* the body of bottom_boundary on a drawn batch d *)
Bottom_on[p \in Polys, sh \in Shapes, d \in Draws] ==
    [value  |-> Ok(Mean(Pow2[Difference[
                    Column[Forward[p, Tensor(SetColumn[d.batch, 2, RInt(0)], FALSE)],
                           1, SetColumn[d.batch, 2, RInt(0)]],
                    [i \in DOMAIN d.batch |-> SinPi[SetColumn[d.batch, 2, RInt(0)][i][1]]],
                    sh]])),
     gen    |-> d.gen,
     drawn  |-> d.batch,
     sample |-> SetColumn[d.batch, 2, RInt(0)]]

bottom_boundary(p, sh, n, m, g) == Bottom_on[p, sh, rand(g, n, m)]

(* second_both[:, 0] + second_both[:, 1], row by row *)
SumOfColumns[second_both \in Computeds, rows \in Rows] ==
    [i \in DOMAIN rows |->
        RAdd[Eval[second_both.cols[1], rows[i]], Eval[second_both.cols[2], rows[i]]]]

(* the result of interior, given the outcome of its two derivative passes *)
Residual[first_both \in Outcomes, second_both \in Outcomes] ==
    IF first_both.kind = "error" \/ second_both.kind = "error"
    THEN Error
    ELSE Ok(Mean(Pow2[SumOfColumns[second_both.out, second_both.inputs.rows]]))

(* lines 74-75, given the outcome first_both of line 73 *)
Interior_after[first_both \in Outcomes, d \in Draws, m \in Nat] ==
    [value  |-> Residual[first_both,
                         calc_derivative[first_both.out, first_both.inputs, m]],
     gen    |-> d.gen,
     drawn  |-> d.batch,
     sample |-> d.batch]

(* the body of interior on a drawn batch d, created with requires_grad=True *)
Interior_on[p \in Polys, d \in Draws, m \in Nat] ==
    Interior_after[calc_derivative[Forward[p, Tensor(d.batch, TRUE)],
                                   Tensor(d.batch, TRUE), m],
                   d, m]

interior(p, sh, n, m, g) == Interior_on[p, rand(g, n, m), m]

Ops == {"left_boundary", "right_boundary", "top_boundary", "bottom_boundary", "interior"}

Call(op, p, sh, n, m, g) ==
    CASE op = "left_boundary"   -> left_boundary(p, sh, n, m, g)
      [] op = "right_boundary"  -> right_boundary(p, sh, n, m, g)
      [] op = "top_boundary"    -> top_boundary(p, sh, n, m, g)
      [] op = "bottom_boundary" -> bottom_boundary(p, sh, n, m, g)
      [] op = "interior"        -> interior(p, sh, n, m, g)

---------------------------------------------------------------------------
(* The models: the parameter space of the trained network, whose output and
   first derivative depend on the input, and the analytic test functions *)

ParamSpace ==
    { Poly(<<1, 1>> :> 1),                          \* x y
      Poly(<<2, 0>> :> 1 @@ <<0, 2>> :> -1),        \* x^2 - y^2
      Poly(<<2, 0>> :> 1 @@ <<0, 2>> :> 1),         \* x^2 + y^2
      Poly(<<2, 1>> :> 1 @@ <<0, 0>> :> -1) }       \* x^2 y - 1

TestNets ==
    ParamSpace \cup
    { ZeroPoly,                                     \* 0
      Poly(<<0, 0>> :> 2),                          \* 2
      Poly(<<0, 0>> :> -3),                         \* -3
      Poly(<<1, 0>> :> 1) }                         \* x

---------------------------------------------------------------------------
(* The training script: seeding, construction, the loop, the plot *)

(* for epoch in range(N_EPOCHS): the loop runs while iterations remain,
   whatever the loss is *)
LoopCond_until_converged(e, l) == e < N_EPOCHS /\ (e = 0 \/ ~RLess(l, RInt(1)))
LoopCond(e, l) == e < N_EPOCHS

(* the statements of one iteration in program order, back to the loop head *)
Successor_step_early(p) ==
    CASE p = "zero_grad"       -> "left_boundary"
      [] p = "left_boundary"   -> "right_boundary"
      [] p = "right_boundary"  -> "top_boundary"
      [] p = "top_boundary"    -> "bottom_boundary"
      [] p = "bottom_boundary" -> "step"
      [] p = "step"            -> "interior"
      [] p = "interior"        -> "backward"
      [] p = "backward"        -> "loop"
Successor(p) ==
    CASE p = "zero_grad"       -> "left_boundary"
      [] p = "left_boundary"   -> "right_boundary"
      [] p = "right_boundary"  -> "top_boundary"
      [] p = "top_boundary"    -> "bottom_boundary"
      [] p = "bottom_boundary" -> "interior"
      [] p = "interior"        -> "backward"
      [] p = "backward"        -> "step"
      [] p = "step"            -> "loop"

(* opt.zero_grad(): the accumulated gradients are cleared *)
zero_grad_keeps(g) == g
zero_grad(g) == <<>>

(* loss.backward(): the gradient of this loss is added to the accumulated
   gradients *)
backward(g, e, l, p) == Append(g, [epoch |-> e, loss |-> l, params |-> p])

NoDeriv == [entry |-> TRUE, exit |-> TRUE, kind |-> "none", out |-> <<>>]

Init ==
    /\ pc = "loop"
    /\ \E s \in Seeds :
          /\ gen = manual_seed(FreshGenerator, s)
          /\ seed0 = s
    /\ params \in ParamSpace
    /\ shape = "column"
    /\ n_colpoints \in 1..MaxColpoints
    /\ n_inputs \in 2..MaxInputs
    /\ epoch = 0
    /\ grads = <<>>
    /\ terms = <<>>
    /\ loss = RInt(0)
    /\ drawn = <<>>
    /\ sample = <<>>
    /\ lastOp = "none"
    /\ result = Ok(RInt(0))
    /\ deriv = NoDeriv
    /\ draws = 0
    /\ seedings = 1
    /\ steps = 0
    /\ consumed = <<>>
    /\ trace = <<>>
    /\ writer = {}
    /\ gen2 = FreshGenerator
    /\ sample2 = <<>>
    /\ sinceSeed = 0

config == <<shape, n_colpoints, n_inputs>>
second == <<gen2, sample2, sinceSeed>>
seeding == <<seedings, seed0>>

(* the statement at pc is done: on to the next, counting the iteration
   when the loop head is reached again *)
Goto(p) ==
    /\ pc' = Successor(p)
    /\ epoch' = IF Successor(p) = "loop" THEN epoch + 1 ELSE epoch
    /\ trace' = Append(trace, p)

Wrote == writer' = IF params' # params THEN writer \cup {pc} ELSE writer

LoopHead ==
    /\ pc = "loop"
    /\ pc' = IF LoopCond(epoch, loss) THEN "zero_grad" ELSE "done"
    /\ trace' = <<>>
    /\ terms' = <<>>
    /\ UNCHANGED <<gen, params, config, epoch, grads, loss, drawn, sample, lastOp,
                   result, deriv, draws, seeding, steps, consumed, writer, second>>

ZeroGrad ==
    /\ pc = "zero_grad"
    /\ grads' = zero_grad(grads)
    /\ Goto(pc)
    /\ UNCHANGED <<gen, params, config, terms, loss, drawn, sample, lastOp,
                   result, deriv, draws, seeding, steps, consumed, writer, second>>

(* one sampler call of line 105; the last one completes the sum *)
Sampler(op) ==
    /\ pc = op
    /\ \E r \in {Call(op, params, shape, n_colpoints, n_inputs, gen)} :
       \E t \in {Append(terms, [op |-> op, value |-> r.value, params |-> params])} :
           /\ gen' = r.gen
           /\ drawn' = r.drawn
           /\ sample' = r.sample
           /\ result' = r.value
           /\ terms' = t
           /\ loss' = IF op = "interior"
                      THEN RSum[[i \in DOMAIN t |-> t[i].value.val]]
                      ELSE loss
           /\ IF r.value.kind = "error"
              THEN pc' = "raised" /\ UNCHANGED <<epoch, trace>>
              ELSE Goto(pc)
    /\ lastOp' = op
    /\ draws' = draws + 1
    /\ UNCHANGED <<params, config, grads, deriv, seeding, steps, consumed, writer,
                   second>>

Left == Sampler("left_boundary")
Right == Sampler("right_boundary")
Top == Sampler("top_boundary")
Bottom == Sampler("bottom_boundary")
Interior == Sampler("interior")

Backward ==
    /\ pc = "backward"
    /\ grads' = backward(grads, epoch, loss, params)
    /\ Goto(pc)
    /\ UNCHANGED <<gen, params, config, terms, loss, drawn, sample, lastOp,
                   result, deriv, draws, seeding, steps, consumed, writer, second>>

(* opt.step(): the optimizer moves the parameters, using the accumulated
   gradients *)
Step ==
    /\ pc = "step"
    /\ params' \in ParamSpace
    /\ consumed' = grads
    /\ steps' = steps + 1
    /\ Wrote
    /\ Goto(pc)
    /\ UNCHANGED <<gen, config, grads, terms, loss, drawn, sample, lastOp,
                   result, deriv, draws, seeding, second>>

(* the code after the loop: the model is evaluated on the plot's domain *)
Plot ==
    /\ pc = "done"
    /\ pc' = "plotted"
    /\ lastOp' = "plot"
    /\ UNCHANGED <<gen, params, config, epoch, grads, terms, loss, drawn, sample,
                   result, deriv, draws, seeding, steps, consumed, trace, writer,
                   second>>

Next ==
    \/ LoopHead
    \/ ZeroGrad
    \/ Left
    \/ Right
    \/ Top
    \/ Bottom
    \/ Interior
    \/ Backward
    \/ Step
    \/ Plot

Spec == Init /\ [][Next]_vars

(* the script is one sequential thread: a statement that can run, runs *)
FairSpec == Spec /\ WF_vars(Next)

---------------------------------------------------------------------------
(* The sampler in isolation: a DomainSampling built over an analytic test
   function, its operations and calc_derivative called up to MaxCalls times *)

training == <<epoch, grads, terms, loss, steps, consumed, trace, writer>>

SamplerInit ==
    /\ pc = "harness"
    /\ \E s \in Seeds :
          /\ gen = manual_seed(FreshGenerator, s)
          /\ seed0 = s
    /\ params \in TestNets
    /\ shape \in Shapes
    /\ n_colpoints \in 1..MaxColpoints
    /\ n_inputs \in 2..MaxInputs
    /\ epoch = 0
    /\ grads = <<>>
    /\ terms = <<>>
    /\ loss = RInt(0)
    /\ drawn = <<>>
    /\ sample = <<>>
    /\ lastOp = "none"
    /\ result = Ok(RInt(0))
    /\ deriv = NoDeriv
    /\ draws = 0
    /\ seedings = 1
    /\ steps = 0
    /\ consumed = <<>>
    /\ trace = <<>>
    /\ writer = {}
    /\ gen2 = FreshGenerator
    /\ sample2 = <<>>
    /\ sinceSeed = 0

(* sol.<op>() *)
CallOp ==
    /\ pc = "harness"
    /\ draws < MaxCalls
    /\ \E op \in Ops :
       \E r \in {Call(op, params, shape, n_colpoints, n_inputs, gen)} :
           /\ gen' = r.gen
           /\ drawn' = r.drawn
           /\ sample' = r.sample
           /\ result' = r.value
           /\ lastOp' = op
    /\ draws' = draws + 1
    /\ UNCHANGED <<pc, params, config, deriv, seeding, training, second>>

(* calc_derivative(net(s), s) on a fresh batch s = rand(...), created with
   or without requires_grad *)
CallDerivative ==
    /\ pc = "harness"
    /\ draws < MaxCalls
    /\ \E flag \in BOOLEAN :
       \E d \in {rand(gen, n_colpoints, n_inputs)} :
       \E r \in {calc_derivative[Forward[params, Tensor(d.batch, flag)],
                                 Tensor(d.batch, flag), n_inputs]} :
           /\ gen' = d.gen
           /\ drawn' = d.batch
           /\ sample' = d.batch
           /\ deriv' = [entry |-> flag,
                        exit  |-> r.inputs.requires_grad,
                        kind  |-> r.kind,
                        out   |-> IF r.kind = "ok"
                                  THEN [k \in 1..n_inputs |-> Column[r.out, k, d.batch]]
                                  ELSE <<>>]
    /\ lastOp' = "calc_derivative"
    /\ draws' = draws + 1
    /\ UNCHANGED <<pc, params, config, result, seeding, training, second>>

SamplerNext ==
    \/ CallOp
    \/ CallDerivative

SamplerSpec == SamplerInit /\ [][SamplerNext]_vars

---------------------------------------------------------------------------
(* Repeatability: two runs of the same sampler whose generators have been
   used differently so far; both are seeded alike and then issue the same
   sampler calls *)

RepeatInit ==
    /\ pc = "repeat"
    /\ gen \in [seed : {SEED}, offset : 0..MaxCalls]
    /\ gen2 \in [seed : {SEED}, offset : 0..MaxCalls]
    /\ seed0 = SEED
    /\ params \in {Poly(<<1, 1>> :> 1)}
    /\ shape = "column"
    /\ n_colpoints \in 1..MaxColpoints
    /\ n_inputs \in 2..MaxInputs
    /\ epoch = 0
    /\ grads = <<>>
    /\ terms = <<>>
    /\ loss = RInt(0)
    /\ drawn = <<>>
    /\ sample = <<>>
    /\ lastOp = "none"
    /\ result = Ok(RInt(0))
    /\ deriv = NoDeriv
    /\ draws = 0
    /\ seedings = 0
    /\ steps = 0
    /\ consumed = <<>>
    /\ trace = <<>>
    /\ writer = {}
    /\ sample2 = <<>>
    /\ sinceSeed = 0

(* manual_seed(s) in both runs *)
SeedBoth ==
    /\ pc = "repeat"
    /\ seedings < MaxCalls
    /\ \E s \in Seeds :
          /\ gen' = manual_seed(gen, s)
          /\ gen2' = manual_seed(gen2, s)
          /\ seed0' = s
    /\ seedings' = seedings + 1
    /\ sinceSeed' = 0
    /\ lastOp' = "manual_seed"
    /\ UNCHANGED <<pc, params, config, drawn, sample, result, deriv, draws,
                   training, sample2>>

(* the same sampler operation in both runs *)
CallBoth ==
    /\ pc = "repeat"
    /\ draws < MaxCalls
    /\ \E op \in Ops :
       \E r \in {Call(op, params, shape, n_colpoints, n_inputs, gen)} :
       \E r2 \in {Call(op, params, shape, n_colpoints, n_inputs, gen2)} :
           /\ gen' = r.gen
           /\ drawn' = r.drawn
           /\ sample' = r.sample
           /\ result' = r.value
           /\ gen2' = r2.gen
           /\ sample2' = r2.sample
           /\ lastOp' = op
    /\ draws' = draws + 1
    /\ sinceSeed' = IF seedings > 0 THEN sinceSeed + 1 ELSE 0
    /\ UNCHANGED <<pc, params, config, deriv, seeding, training>>

RepeatNext ==
    \/ SeedBoth
    \/ CallBoth

RepeatSpec == RepeatInit /\ [][RepeatNext]_vars

---------------------------------------------------------------------------
(* Properties *)

Boundaries == {"left_boundary", "right_boundary", "top_boundary", "bottom_boundary"}
PinnedColumn(op) == IF op \in {"left_boundary", "right_boundary"} THEN 1 ELSE 2
PinnedValue(op) == IF op \in {"right_boundary", "top_boundary"} THEN RInt(1) ELSE RInt(0)
InUnitInterval(x) == ~RLess(x, RInt(0)) /\ RLess(x, RInt(1))
Seeded == manual_seed(FreshGenerator, seed0)

(* C1: whenever interior() returns a value, it is the mean over the sampled
   points of (u_xx + u_yy)^2, the pure second derivatives only; so it is 0
   for a harmonic model *)
C1_InteriorIsPureLaplacian ==
    (lastOp = "interior" /\ result.kind = "ok") =>
        result.val = Mean(Pow2[[i \in DOMAIN sample |-> Eval[Laplacian(params), sample[i]]]])

(* C2: in the batch a boundary operation evaluates the model on, every row
   has the pinned coordinate at its fixed value, and every other column is
   the unmodified draw, which lies in [0,1) *)
C2_PinnedCoordinate ==
    lastOp \in Boundaries =>
        /\ Len(sample) = n_colpoints
        /\ \A i \in 1..n_colpoints :
              /\ Len(sample[i]) = n_inputs
              /\ sample[i][PinnedColumn(lastOp)] = PinnedValue(lastOp)
              /\ \A k \in 1..n_inputs :
                    k # PinnedColumn(lastOp) =>
                        sample[i][k] = drawn[i][k] /\ InUnitInterval(drawn[i][k])

C2_Witness ==
    /\ lastOp = "left_boundary"
    /\ n_colpoints >= 2
    /\ \E i \in DOMAIN drawn : drawn[i][1] # RInt(0) /\ sample[i][1] = RInt(0)

(* C3: bottom_boundary() returns the mean over the sampled points i of
   (u(x_i, 0) - sin(pi x_i))^2, each output compared with the target at its
   own point, whatever the shape of the model's output *)
C3_BottomPointwise ==
    lastOp = "bottom_boundary" =>
        result = Ok(Mean(Pow2[[i \in DOMAIN sample |->
                        RSub[Eval[params, sample[i]], SinPi[sample[i][1]]]]]))

(* C4: with a model that is the same nonzero constant c everywhere,
   left_boundary(), right_boundary() and top_boundary() return c^2, for
   every batch size and every batch *)
C4_ConstantSquared ==
    (/\ lastOp \in {"left_boundary", "right_boundary", "top_boundary"}
     /\ IsConst[params]
     /\ params[<<0, 0>>] # 0) =>
        result = Ok(RInt(params[<<0, 0>>] * params[<<0, 0>>]))

C4_Witness ==
    /\ lastOp = "top_boundary"
    /\ IsConst[params]
    /\ params[<<0, 0>>] = -3
    /\ n_colpoints >= 2
    /\ result = Ok(RInt(9))

(* C5: the loop always reaches DONE, after exactly N_EPOCHS iterations and
   optimizer steps whatever the losses were, and no parameter changes once
   it is DONE *)
C5_TerminatesOnBudget ==
    /\ <>(pc = "done")
    /\ [](pc \in {"done", "plotted"} => epoch = N_EPOCHS /\ steps = N_EPOCHS)
    /\ [][(pc \in {"done", "plotted"}) => (params' = params)]_vars

C5_Witness ==
    /\ pc = "plotted"
    /\ steps = N_EPOCHS
    /\ writer = {"step"}

C7_IterationOrder ==
    /\ (pc = "loop" /\ epoch > 0) =>
          trace = <<"zero_grad", "left_boundary", "right_boundary", "top_boundary",
                    "bottom_boundary", "interior", "backward", "step">>
    /\ pc \in {"backward", "step"} =>
          /\ [i \in DOMAIN terms |-> terms[i].op] =
                <<"left_boundary", "right_boundary", "top_boundary",
                  "bottom_boundary", "interior">>
          /\ loss = RAdd[RAdd[RAdd[RAdd[terms[1].value.val, terms[2].value.val],
                                   terms[3].value.val], terms[4].value.val],
                         terms[5].value.val]
    /\ pc = "step" => grads = <<[epoch |-> epoch, loss |-> loss, params |-> params]>>
    /\ steps > 0 =>
          /\ Len(consumed) = 1
          /\ consumed[1].epoch = steps - 1
          /\ (pc = "loop" => consumed[1].loss = loss)

C7_Witness ==
    /\ pc = "loop"
    /\ epoch >= 2
    /\ steps = epoch
    /\ Len(consumed) = 1
    /\ consumed[1].epoch = 1

(* C8: calc_derivative on an input that is not flagged for gradient
   tracking (the outputs being a model's outputs that depend on it) flags
   it and returns the derivative, not an error, also when the outputs were
   computed before the flag was set; a flagged input stays flagged *)
C8_UnflaggedInputGetsDerivative ==
    (lastOp = "calc_derivative" /\ ~IsConst[params]) =>
        /\ deriv.exit = TRUE
        /\ deriv.entry = FALSE => deriv.kind = "ok"

(* C9: parameter values change only in the optimizer step, so the loss
   terms of one iteration are all evaluated with the same parameters *)
C9_ParamsOnlyByStep ==
    /\ writer \subseteq {"step"}
    /\ \A i, j \in DOMAIN terms : terms[i].params = terms[j].params
    /\ pc \in Ops \cup {"backward", "step"} =>
          \A i \in DOMAIN terms : terms[i].params = params

C9_Witness ==
    /\ pc = "backward"
    /\ Len(terms) = 5
    /\ writer = {"step"}
    /\ steps >= 1

(* C10: every sampler call draws a new n_colpoints x n_inputs batch from the
   generator and advances it; after k iterations 5k batches were drawn, and
   the generator was seeded once *)
C10_FreshBatchEveryCall ==
    /\ seedings = 1
    /\ draws = 5 * epoch + (IF pc \in Ops \cup {"backward", "step"} THEN Len(terms) ELSE 0)
    /\ gen = Skip(Seeded, draws * n_colpoints * n_inputs)
    /\ draws > 0 =>
          /\ Len(drawn) = n_colpoints
          /\ \A i \in 1..n_colpoints :
                /\ Len(drawn[i]) = n_inputs
                /\ \A k \in 1..n_inputs :
                      drawn[i][k] =
                          Uniform(Seeded, (draws - 1) * n_colpoints * n_inputs
                                          + (i - 1) * n_inputs + (k - 1))

C10_Witness ==
    /\ pc = "loop"
    /\ epoch = N_EPOCHS
    /\ draws = 5 * N_EPOCHS
    /\ seedings = 1

====
